---- MODULE Spec2Model ----
(***************************************************************************)
(* A model of trello-cli: the command surface (src/trello_cli/main.py) and *)
(* the API client (src/trello_cli/trello_api.py).                          *)
(*                                                                         *)
(* The program is single-threaded and synchronous: one process runs one    *)
(* subcommand, which constructs one client and calls its methods; every    *)
(* client method blocks on requests.get/post/put.  One action of the model *)
(* is one whole invocation of a subcommand (or of a client method that has *)
(* no subcommand).  What the remote answers to each HTTP call is an input  *)
(* of the action.  The state after an action is what the invocation left   *)
(* behind: the HTTP events in the order they happened, the client methods  *)
(* called with their outcomes, what was printed, and the exit code.        *)
(***************************************************************************)
EXTENDS Naturals, Integers, Sequences, FiniteSets, TLC

VARIABLES
    command,    \* the invocation: [name, creds, args]
    http,       \* the HTTP events of the invocation, in order
    calls,      \* the client methods the caller invoked: [op, args, outcome]
    stdout,     \* what the invocation printed, in order
    exit_code   \* the process exit code (NoProcess for a direct client call)

vars == <<command, http, calls, stdout, exit_code>>

(***************************************************************************)
(* Bounds of the model.                                                    *)
(***************************************************************************)
MaxRecords == 2     \* records in a list response of the remote
MaxLabels == 2      \* --label options given to add-card

(***************************************************************************)
(* Python values.  Strings are strings; None (and JSON null) is NONE.      *)
(* A JSON object is a function from the keys it has to their values, so a  *)
(* missing key is a key outside its DOMAIN.                                *)
(***************************************************************************)
NONE == "<None>"

\* bool(v) of an optional string: None and '' are falsy.
Truthy(v) == v \notin {NONE, ""}

\* Python's `a or b`.
PyOr(a, b) == IF Truthy(a) THEN a ELSE b

\* All JSON objects whose keys are a non-empty subset of DOMAIN F and whose
\* value at key k is drawn from F[k].
Objects(F) ==
    UNION { { o \in [S -> UNION {F[k] : k \in DOMAIN F}] :
                \A k \in S : o[k] \in F[k] } :
            S \in (SUBSET DOMAIN F) \ {{}} }

\* Sequences over S of length at most n.
SeqsUpTo(S, n) == UNION { [1..k -> S] : k \in 0..n }

(***************************************************************************)
(* Exceptions and the outcome of a client method.                          *)
(***************************************************************************)
NoExc == [type |-> "", arg |-> ""]

\* requests.HTTPError, whose str() carries the status code.
HTTPError(status) == [type |-> "HTTPError", arg |-> ToString(status)]

\* KeyError raised by obj[key] on a dict without the key.
KeyError(key) == [type |-> "KeyError", arg |-> key]

Returned(trace, value) ==
    [trace |-> trace, raised |-> FALSE, ret |-> value, exc |-> NoExc]

Raised(trace, e) ==
    [trace |-> trace, raised |-> TRUE, ret |-> <<>>, exc |-> e]

(***************************************************************************)
(* HTTP.  A call is a request event followed by its response event: the    *)
(* requests library blocks until the response is there.                    *)
(***************************************************************************)
Request(method, url, params) ==
    [ev |-> "request", method |-> method, url |-> url, params |-> params]

Response(r) ==
    [ev |-> "response", status |-> r.status, body |-> r.body]

\* requests.get / requests.post / requests.put with the remote answering r.
HttpCall(method, url, params, r) ==
    <<Request(method, url, params), Response(r)>>

\* A raise_for_status that lets server errors through.
raise_for_status_client_errors_only(r) == r.status >= 400 /\ r.status < 500

\* Response.raise_for_status(): raises HTTPError for 4xx and 5xx.
raise_for_status(r) == r.status >= 400 /\ r.status < 600

\* The key that obj[k1], obj[k2], ... (in this order) fails on.
FirstMissing(obj, keys) ==
    keys[CHOOSE i \in 1..Len(keys) :
            /\ keys[i] \notin DOMAIN obj
            /\ \A j \in 1..(i - 1) : keys[j] \in DOMAIN obj]

HasAll(obj, keys) == \A i \in 1..Len(keys) : keys[i] \in DOMAIN obj

\* The response's records returned as they are, unprojected.
Comprehension_raw(trace, body, keys) == Returned(trace, body)

\* [ {k: rec[k] for k in keys} for rec in body ]: the first record that
\* lacks a key raises KeyError and nothing is returned.
Comprehension(trace, body, keys) ==
    IF \E i \in 1..Len(body) : ~HasAll(body[i], keys)
    THEN LET i == CHOOSE i \in 1..Len(body) :
                    /\ ~HasAll(body[i], keys)
                    /\ \A j \in 1..(i - 1) : HasAll(body[j], keys)
         IN  Raised(trace, KeyError(FirstMissing(body[i], keys)))
    ELSE Returned(trace,
            [i \in 1..Len(body) |->
                [k \in {keys[n] : n \in 1..Len(keys)} |-> body[i][k]]])

(***************************************************************************)
(* The API client.                                                         *)
(***************************************************************************)
TrelloAPI(api_key, token) ==
    [api_key |-> api_key, token |-> token,
     auth_params |-> [key |-> api_key, token |-> token]]

get_boards(self, r) ==
    LET url == <<"members", "me", "boards">>
        params == self.auth_params @@ [fields |-> "name,id"]
        trace == HttpCall("GET", url, params, r)
    IN  IF raise_for_status(r)
        THEN Raised(trace, HTTPError(r.status))
        ELSE Comprehension(trace, r.body, <<"name", "id">>)

get_lists_in_board(self, board_id, r) ==
    LET url == <<"boards", board_id, "lists">>
        params == self.auth_params @@ [fields |-> "name,id"]
        trace == HttpCall("GET", url, params, r)
    IN  IF raise_for_status(r)
        THEN Raised(trace, HTTPError(r.status))
        ELSE Comprehension(trace, r.body, <<"name", "id">>)

get_list_name(self, list_id, r) ==
    LET url == <<"lists", list_id>>
        params == self.auth_params @@ [fields |-> "name"]
        trace == HttpCall("GET", url, params, r)
    IN  IF raise_for_status(r)
        THEN Raised(trace, HTTPError(r.status))
        ELSE IF "name" \notin DOMAIN r.body
        THEN Raised(trace, KeyError("name"))
        ELSE Returned(trace, r.body["name"])

get_cards_in_list(self, list_id, r) ==
    LET url == <<"lists", list_id, "cards">>
        params == self.auth_params @@ [fields |-> "id,name,shortUrl"]
        trace == HttpCall("GET", url, params, r)
    IN  IF raise_for_status(r)
        THEN Raised(trace, HTTPError(r.status))
        ELSE Comprehension(trace, r.body, <<"id", "name", "shortUrl">>)

\* label_row with `is not None` for the truth test: '' passes through.
label_row_none_only(label) ==
    [name |-> IF label["name"] # NONE THEN label["name"] ELSE "Unnamed Label",
     id |-> label["id"],
     color |-> IF label["color"] # NONE THEN label["color"] ELSE "No Color"]

\* One label of get_labels_in_board's comprehension; its keys are there.
label_row(label) ==
    [name |-> IF Truthy(label["name"]) THEN label["name"] ELSE "Unnamed Label",
     id |-> label["id"],
     color |-> IF Truthy(label["color"]) THEN label["color"] ELSE "No Color"]

get_labels_in_board(self, board_id, r) ==
    LET url == <<"boards", board_id, "labels">>
        params == self.auth_params @@ [fields |-> "name,id,color"]
        trace == HttpCall("GET", url, params, r)
        keys == <<"name", "id", "color">>
        picked == Comprehension(trace, r.body, keys)
    IN  IF raise_for_status(r)
        THEN Raised(trace, HTTPError(r.status))
        ELSE IF picked.raised THEN picked
        ELSE Returned(trace, [i \in 1..Len(r.body) |-> label_row(r.body[i])])

search_cards(self, query, r) ==
    LET url == <<"search">>
        params == self.auth_params @@
                  [query |-> query, modelTypes |-> "cards",
                   card_fields |-> "name,shortUrl"]
        trace == HttpCall("GET", url, params, r)
    IN  IF raise_for_status(r)
        THEN Raised(trace, HTTPError(r.status))
        ELSE IF "cards" \notin DOMAIN r.body
        THEN Raised(trace, KeyError("cards"))
        ELSE Comprehension(trace, r.body["cards"], <<"id", "name", "shortUrl">>)

\* add_comment that posts again when the POST fails.
add_comment_retry(self, card_id, comment, r) ==
    LET url == <<"cards", card_id, "actions", "comments">>
        params == self.auth_params @@ [text |-> comment]
        once == HttpCall("POST", url, params, r)
    IN  IF raise_for_status(r)
        THEN Raised(once \o once, HTTPError(r.status))
        ELSE Returned(once, r.body)

add_comment(self, card_id, comment, r) ==
    LET url == <<"cards", card_id, "actions", "comments">>
        params == self.auth_params @@ [text |-> comment]
        trace == HttpCall("POST", url, params, r)
    IN  IF raise_for_status(r)
        THEN Raised(trace, HTTPError(r.status))
        ELSE Returned(trace, r.body)

\* ', '.join(labels): a space after each comma.
RECURSIVE join_comma_space(_)
join_comma_space(labels) ==
    IF Len(labels) = 1 THEN labels[1]
    ELSE labels[1] \o ", " \o join_comma_space(Tail(labels))

\* ','.join(labels) of a non-empty list.
RECURSIVE join(_)
join(labels) ==
    IF Len(labels) = 1 THEN labels[1]
    ELSE labels[1] \o "," \o join(Tail(labels))

\* An optional list argument: None, or a list.
NoList == [given |-> FALSE, ids |-> <<>>]
List(ids) == [given |-> TRUE, ids |-> ids]

\* bool(labels): None and [] are falsy.
TruthyList(labels) == labels.given /\ Len(labels.ids) > 0

\* The params of create_card's POST.
create_params(self, list_id, name, labels) ==
    LET params == self.auth_params @@ [idList |-> list_id, name |-> name]
    IN  IF TruthyList(labels)
        THEN params @@ [idLabels |-> join(labels.ids)]
        ELSE params

\* `comment and 'id' in card`: a null or empty id passes.
comment_wanted_id_key(comment, card) ==
    Truthy(comment) /\ "id" \in DOMAIN card

\* `comment and card.get('id')`
comment_wanted(comment, card) ==
    Truthy(comment) /\ "id" \in DOMAIN card /\ Truthy(card["id"])

\* rc answers the card POST, rm the comment POST (if it is issued).
create_card(self, list_id, name, labels, comment, rc, rm) ==
    LET url == <<"cards">>
        params == create_params(self, list_id, name, labels)
        trace == HttpCall("POST", url, params, rc)
        card == rc.body
    IN  IF raise_for_status(rc)
        THEN Raised(trace, HTTPError(rc.status))
        ELSE IF comment_wanted(comment, card)
        THEN LET c == add_comment(self, card["id"], comment, rm)
             IN  IF c.raised THEN Raised(trace \o c.trace, c.exc)
                 ELSE Returned(trace \o c.trace, card)
        ELSE Returned(trace, card)

\* update_params with `if archive:` for `if archive is not None:`.
update_params_archive_truthy(self, name, list_id, archive) ==
    self.auth_params
    @@ (IF name # NONE THEN [name |-> name] ELSE <<>>)
    @@ (IF list_id # NONE THEN [idList |-> list_id] ELSE <<>>)
    @@ (IF archive = "True" THEN [closed |-> "true"] ELSE <<>>)

\* The params of update_card's PUT; archive is NONE, "True" or "False".
update_params(self, name, list_id, archive) ==
    self.auth_params
    @@ (IF name # NONE THEN [name |-> name] ELSE <<>>)
    @@ (IF list_id # NONE THEN [idList |-> list_id] ELSE <<>>)
    @@ (IF archive # NONE
        THEN [closed |-> IF archive = "True" THEN "true" ELSE "false"]
        ELSE <<>>)

\* update_card that updates the card first and comments afterwards.
update_card_put_first(self, card_id, name, list_id, comment, archive, rm, rp) ==
    LET url == <<"cards", card_id>>
        params == update_params(self, name, list_id, archive)
        put == HttpCall("PUT", url, params, rp)
        c == IF Truthy(comment) THEN add_comment(self, card_id, comment, rm)
             ELSE Returned(<<>>, <<>>)
    IN  IF raise_for_status(rp) THEN Raised(put, HTTPError(rp.status))
        ELSE IF c.raised THEN Raised(put \o c.trace, c.exc)
        ELSE Returned(put \o c.trace, rp.body)

\* rm answers the comment POST (if it is issued), rp the card PUT.
update_card(self, card_id, name, list_id, comment, archive, rm, rp) ==
    LET url == <<"cards", card_id>>
        params == update_params(self, name, list_id, archive)
        c == IF Truthy(comment) THEN add_comment(self, card_id, comment, rm)
             ELSE Returned(<<>>, <<>>)
        trace == c.trace \o HttpCall("PUT", url, params, rp)
    IN  IF c.raised THEN Raised(c.trace, c.exc)
        ELSE IF raise_for_status(rp)
        THEN Raised(trace, HTTPError(rp.status))
        ELSE Returned(trace, rp.body)

(***************************************************************************)
(* What the remote may answer.                                             *)
(***************************************************************************)
ErrorStatuses == {404, 500}

\* An error response; its body is never read.
ErrorResponses == { [status |-> s, body |-> <<>>] : s \in ErrorStatuses }

OkResponses(bodies) == { [status |-> 200, body |-> b] : b \in bodies }

BoardBodies ==
    SeqsUpTo(Objects([id |-> {"b1", "b2"}, name |-> {"Work"}]), MaxRecords)

ListBodies ==
    SeqsUpTo(Objects([id |-> {"L1", "L2"}, name |-> {"Todo"}]), MaxRecords)

CardObjects ==
    Objects([id |-> {"c1", "c2"}, name |-> {"Task"}, shortUrl |-> {"u"}])

CardBodies == SeqsUpTo(CardObjects, MaxRecords)

\* A label's name or color may be null or empty.
LabelBodies ==
    SeqsUpTo(Objects([id |-> {"X"}, name |-> {NONE, "", "bug"},
                      color |-> {NONE, "", "red"}]), MaxRecords)

ListNameBodies == { [name |-> "Todo"], [id |-> "L1"] }

SearchBodies ==
    { [cards |-> b] : b \in CardBodies } \cup { [options |-> "{}"] }

\* The card a POST or PUT answers with; its id may be missing, null or ''.
CreatedCardBodies ==
    Objects([id |-> {NONE, "", "c1"}, name |-> {"Task"}, shortUrl |-> {"u"}])

CommentBodies == { [id |-> "a1"] }

\* The label ids --label may give: sequences of at most MaxLabels ids.
LabelArgs ==
    {NoList} \cup { List(ids) : ids \in SeqsUpTo({"X", "Y"}, MaxLabels) }

(***************************************************************************)
(* The command surface.                                                    *)
(***************************************************************************)
NoProcess == 0 - 1

\* The --api-key/--token options and the two environment variables.
CredentialInputs ==
    { [api_key |-> "K", token |-> "T", env_key |-> NONE, env_token |-> NONE],
      [api_key |-> NONE, token |-> NONE, env_key |-> "EK", env_token |-> "ET"],
      [api_key |-> "K", token |-> NONE, env_key |-> "EK", env_token |-> "ET"],
      [api_key |-> "", token |-> "T", env_key |-> "EK", env_token |-> NONE],
      [api_key |-> NONE, token |-> "T", env_key |-> NONE, env_token |-> "ET"],
      [api_key |-> "K", token |-> NONE, env_key |-> "EK", env_token |-> NONE],
      [api_key |-> NONE, token |-> NONE, env_key |-> NONE, env_token |-> NONE] }

Table(title, rows) ==
    [kind |-> "table", text |-> title, rows |-> rows, detail |-> NoExc]

Echo(text, e) ==
    [kind |-> "echo", text |-> text, rows |-> <<>>, detail |-> e]

ConfigError ==
    Echo(<<"Error: API key and token are required. Either:",
           "1. Set them via environment variables (.bashrc/.zshrc/etc):",
           "2. Or provide them as command line options:">>, NoExc)

\* get_trello_client with `and` for `or` in its check.
get_trello_client_both_missing(creds) ==
    LET final_api_key == PyOr(creds.api_key, creds.env_key)
        final_token == PyOr(creds.token, creds.env_token)
    IN  IF ~Truthy(final_api_key) /\ ~Truthy(final_token)
        THEN [ok |-> FALSE, client |-> TrelloAPI(NONE, NONE)]
        ELSE [ok |-> TRUE, client |-> TrelloAPI(final_api_key, final_token)]

\* get_trello_client: the client, or a configuration error.
get_trello_client(creds) ==
    LET final_api_key == PyOr(creds.api_key, creds.env_key)
        final_token == PyOr(creds.token, creds.env_token)
    IN  IF ~Truthy(final_api_key) \/ ~Truthy(final_token)
        THEN [ok |-> FALSE, client |-> TrelloAPI(NONE, NONE)]
        ELSE [ok |-> TRUE, client |-> TrelloAPI(final_api_key, final_token)]

\* No command has run yet in this process.
NotStarted == command.name = ""

\* The state an invocation leaves when get_trello_client exits.
ExitConfigError(name, creds, args) ==
    /\ command' = [name |-> name, creds |-> creds, args |-> args]
    /\ http' = <<>>
    /\ calls' = <<>>
    /\ stdout' = <<ConfigError>>
    /\ exit_code' = 1

\* The state an invocation leaves after `cs`, the client calls it made.
Finish(name, creds, args, cs, out, code) ==
    /\ command' = [name |-> name, creds |-> creds, args |-> args]
    /\ http' = IF Len(cs) = 1 THEN cs[1].outcome.trace
               ELSE cs[1].outcome.trace \o cs[2].outcome.trace
    /\ calls' = cs
    /\ stdout' = out
    /\ exit_code' = code

ClientCall(op, args, outcome) == [op |-> op, args |-> args, outcome |-> outcome]

\* One row per record, in order: the cells are the record's `cols`.
Rows(records, cols) ==
    [i \in 1..Len(records) |-> [c \in 1..Len(cols) |-> records[i][cols[c]]]]

\* The table a command builds with table.add_row(rec[c1], rec[c2], ...) for
\* each record, or the KeyError of the first subscript that fails.
Render(title, records, cols) ==
    IF \E i \in 1..Len(records) : ~HasAll(records[i], cols)
    THEN LET i == CHOOSE i \in 1..Len(records) :
                    /\ ~HasAll(records[i], cols)
                    /\ \A j \in 1..(i - 1) : HasAll(records[j], cols)
         IN  [raised |-> TRUE, exc |-> KeyError(FirstMissing(records[i], cols)),
              table |-> Table(title, <<>>)]
    ELSE [raised |-> FALSE, exc |-> NoExc,
          table |-> Table(title, Rows(records, cols))]

\* A command without the check for an empty result.
is_empty_unchecked(records) == FALSE

\* `if not cards:` / `if not search_results:`
is_empty(records) == Len(records) = 0

boards ==
    /\ NotStarted
    /\ \E creds \in CredentialInputs,
          r \in OkResponses(BoardBodies) \cup ErrorResponses :
        LET c == get_trello_client(creds)
            o == get_boards(c.client, r)
            only == <<ClientCall("get_boards", <<>>, o)>>
            t == Render(<<"Your Trello Boards">>, o.ret, <<"name", "id">>)
            failed(e) == <<Echo(<<"Error retrieving boards: ">>, e)>>
        IN  IF ~c.ok THEN ExitConfigError("boards", creds, <<>>)
            ELSE IF o.raised
            THEN Finish("boards", creds, <<>>, only, failed(o.exc), 1)
            ELSE IF t.raised
            THEN Finish("boards", creds, <<>>, only, failed(t.exc), 1)
            ELSE Finish("boards", creds, <<>>, only, <<t.table>>, 0)

lists ==
    /\ NotStarted
    /\ \E creds \in CredentialInputs, board_id \in {"b1"},
          r \in OkResponses(ListBodies) \cup ErrorResponses :
        LET c == get_trello_client(creds)
            o == get_lists_in_board(c.client, board_id, r)
            args == [board_id |-> board_id]
            only == <<ClientCall("get_lists_in_board", args, o)>>
            t == Render(<<"Lists in Board ", board_id>>, o.ret, <<"name", "id">>)
            failed(e) == <<Echo(<<"Error retrieving lists: ">>, e)>>
        IN  IF ~c.ok THEN ExitConfigError("lists", creds, args)
            ELSE IF o.raised
            THEN Finish("lists", creds, args, only, failed(o.exc), 1)
            ELSE IF t.raised
            THEN Finish("lists", creds, args, only, failed(t.exc), 1)
            ELSE Finish("lists", creds, args, only, <<t.table>>, 0)

labels ==
    /\ NotStarted
    /\ \E creds \in CredentialInputs, board_id \in {"b1"},
          r \in OkResponses(LabelBodies) \cup ErrorResponses :
        LET c == get_trello_client(creds)
            o == get_labels_in_board(c.client, board_id, r)
            args == [board_id |-> board_id]
            only == <<ClientCall("get_labels_in_board", args, o)>>
            t == Render(<<"Labels in Board ", board_id>>, o.ret,
                        <<"name", "id", "color">>)
            failed(e) == <<Echo(<<"Error retrieving labels: ">>, e)>>
        IN  IF ~c.ok THEN ExitConfigError("labels", creds, args)
            ELSE IF o.raised
            THEN Finish("labels", creds, args, only, failed(o.exc), 1)
            ELSE IF t.raised
            THEN Finish("labels", creds, args, only, failed(t.exc), 1)
            ELSE Finish("labels", creds, args, only, <<t.table>>, 0)

view_cards ==
    /\ NotStarted
    /\ \E creds \in CredentialInputs, list_id \in {"L1"},
          r1 \in OkResponses(CardBodies) \cup ErrorResponses,
          r2 \in OkResponses(ListNameBodies) \cup ErrorResponses :
        LET c == get_trello_client(creds)
            o == get_cards_in_list(c.client, list_id, r1)
            n == get_list_name(c.client, list_id, r2)
            args == [list_id |-> list_id]
            first == ClientCall("get_cards_in_list", args, o)
            second == ClientCall("get_list_name", args, n)
            t == Render(<<"Cards in list: ", n.ret, "[", list_id, "]">>, o.ret,
                        <<"id", "name", "shortUrl">>)
            failed(e) == <<Echo(<<"Error displaying the cards in list: ">>, e)>>
        IN  IF ~c.ok THEN ExitConfigError("view_cards", creds, args)
            ELSE IF o.raised
            THEN Finish("view_cards", creds, args, <<first>>, failed(o.exc), 1)
            ELSE IF is_empty(o.ret)
            THEN Finish("view_cards", creds, args, <<first>>,
                    <<Echo(<<"The list does not contain any cards yet">>, NoExc)>>, 0)
            ELSE IF n.raised
            THEN Finish("view_cards", creds, args, <<first, second>>, failed(n.exc), 1)
            ELSE IF t.raised
            THEN Finish("view_cards", creds, args, <<first, second>>, failed(t.exc), 1)
            ELSE Finish("view_cards", creds, args, <<first, second>>, <<t.table>>, 0)

search ==
    /\ NotStarted
    /\ \E creds \in CredentialInputs, query \in {"bug"},
          r \in OkResponses(SearchBodies) \cup ErrorResponses :
        LET c == get_trello_client(creds)
            o == search_cards(c.client, query, r)
            args == [query |-> query]
            only == <<ClientCall("search_cards", args, o)>>
            t == Render(<<"Card results for the query string: ", query>>, o.ret,
                        <<"id", "name", "shortUrl">>)
            failed(e) == <<Echo(<<"Error retrieving search results: ">>, e)>>
        IN  IF ~c.ok THEN ExitConfigError("search", creds, args)
            ELSE IF o.raised
            THEN Finish("search", creds, args, only, failed(o.exc), 1)
            ELSE IF is_empty(o.ret)
            THEN Finish("search", creds, args, only,
                    <<Echo(<<"No cards found for the query string: ", query>>,
                           NoExc)>>, 0)
            ELSE IF t.raised
            THEN Finish("search", creds, args, only, failed(t.exc), 1)
            ELSE Finish("search", creds, args, only, <<t.table>>, 0)

add_card ==
    /\ NotStarted
    /\ \E creds \in CredentialInputs, list_id \in {"L1"}, name \in {"Task"},
       lbls \in LabelArgs, comment \in {NONE, "", "hi"},
       rc \in OkResponses(CreatedCardBodies) \cup ErrorResponses,
       rm \in OkResponses(CommentBodies) \cup ErrorResponses :
        LET c == get_trello_client(creds)
            o == create_card(c.client, list_id, name, lbls, comment, rc, rm)
            args == [list_id |-> list_id, name |-> name, labels |-> lbls,
                     comment |-> comment]
            only == <<ClientCall("create_card", args, o)>>
            failed(e) == <<Echo(<<"Error creating card: ">>, e)>>
        IN  IF ~c.ok THEN ExitConfigError("add_card", creds, args)
            ELSE IF o.raised
            THEN Finish("add_card", creds, args, only, failed(o.exc), 1)
            ELSE IF "shortUrl" \notin DOMAIN o.ret
            THEN Finish("add_card", creds, args, only, failed(KeyError("shortUrl")), 1)
            ELSE Finish("add_card", creds, args, only,
                    <<Echo(<<"Successfully created card: ", o.ret["shortUrl"]>>, NoExc)>>, 0)

(***************************************************************************)
(* Client methods that no subcommand reaches, called by the client's user. *)
(***************************************************************************)
Direct(op, self, args, o) ==
    /\ command' = [name |-> op, creds |-> self.auth_params, args |-> args]
    /\ http' = o.trace
    /\ calls' = <<ClientCall(op, args, o)>>
    /\ stdout' = <<>>
    /\ exit_code' = NoProcess

call_update_card ==
    /\ NotStarted
    /\ \E card_id \in {"c1"}, name \in {NONE, "", "New"}, list_id \in {NONE, "L2"},
       comment \in {NONE, "", "hi"}, archive \in {NONE, "True", "False"},
       rm \in OkResponses(CommentBodies) \cup ErrorResponses,
       rp \in OkResponses(CreatedCardBodies) \cup ErrorResponses :
        LET self == TrelloAPI("K", "T")
        IN  Direct("update_card", self,
                [card_id |-> card_id, name |-> name, list_id |-> list_id,
                 comment |-> comment, archive |-> archive],
                update_card(self, card_id, name, list_id, comment, archive, rm, rp))

call_add_comment ==
    /\ NotStarted
    /\ \E card_id \in {"c1"}, comment \in {"", "hi"},
       r \in OkResponses(CommentBodies) \cup ErrorResponses :
        LET self == TrelloAPI("K", "T")
        IN  Direct("add_comment", self, [card_id |-> card_id, comment |-> comment],
                add_comment(self, card_id, comment, r))

(***************************************************************************)
(* Properties.                                                             *)
(***************************************************************************)
Subcommands == {"boards", "lists", "labels", "view_cards", "search", "add_card"}

\* The operation context each subcommand prefixes its error message with.
ErrorContext(name) ==
    CASE name = "boards" -> "Error retrieving boards: "
      [] name = "lists" -> "Error retrieving lists: "
      [] name = "labels" -> "Error retrieving labels: "
      [] name = "view_cards" -> "Error displaying the cards in list: "
      [] name = "search" -> "Error retrieving search results: "
      [] name = "add_card" -> "Error creating card: "

IsRequest(e) == e.ev = "request"
IsResponse(e) == e.ev = "response"

RequestsOf(trace) == { i \in 1..Len(trace) : IsRequest(trace[i]) }

IsCommentPost(e) ==
    /\ IsRequest(e)
    /\ e.method = "POST"
    /\ Len(e.url) = 4
    /\ e.url[1] = "cards" /\ e.url[3] = "actions" /\ e.url[4] = "comments"

IsCardPost(e) == IsRequest(e) /\ e.method = "POST" /\ e.url = <<"cards">>

IsCardPut(e) ==
    IsRequest(e) /\ e.method = "PUT" /\ Len(e.url) = 2 /\ e.url[1] = "cards"

\* C1: in a subcommand, any HTTP response with status >= 400 makes the
\* command exit with code 1 (never 0) after printing a message made of the
\* subcommand's operation context and the error detail (the HTTP error with
\* that status).
C1_HttpErrorExitsOne ==
    command.name \in Subcommands =>
        \A i \in 1..Len(http) :
            (IsResponse(http[i]) /\ http[i].status >= 400) =>
                /\ exit_code = 1
                /\ \E j \in 1..Len(stdout) :
                    /\ stdout[j].kind = "echo"
                    /\ stdout[j].text = <<ErrorContext(command.name)>>
                    /\ stdout[j].detail =
                        [type |-> "HTTPError", arg |-> ToString(http[i].status)]

\* add-card whose card was created and whose comment POST then failed.
C1_Witness ==
    /\ command.name = "add_card"
    /\ Len(http) = 4
    /\ http[2].status = 200
    /\ http[4].status = 500
    /\ exit_code = 1

\* C2: create_card issues a comment POST only after the card POST has been
\* answered with a success status and with a card that has a (non-empty) id,
\* and posts it to that id; a failed creation or a card without id is
\* followed by no comment request.
C2_CommentOnlyAfterCreatedWithId ==
    \A n \in 1..Len(calls) :
        calls[n].op = "create_card" =>
            LET t == calls[n].outcome.trace
            IN  /\ IsCardPost(t[1])
                /\ IsResponse(t[2])
                /\ \A i \in 1..Len(t) :
                    IsCommentPost(t[i]) =>
                        /\ i = 3
                        /\ Truthy(calls[n].args.comment)
                        /\ t[2].status >= 200 /\ t[2].status < 300
                        /\ "id" \in DOMAIN t[2].body
                        /\ Truthy(t[2].body["id"])
                        /\ t[i].url[2] = t[2].body["id"]
                        /\ t[i].params["text"] = calls[n].args.comment

\* A card created with an id, then commented.
C2_Witness ==
    /\ command.name = "add_card"
    /\ command.args.comment = "hi"
    /\ Len(http) = 4
    /\ IsCommentPost(http[3])
    /\ http[2].body["id"] = "c1"

\* C3: the PUT of update_card carries, besides key and token, exactly the
\* fields supplied: closed iff archive was given ("true" for True, "false"
\* for False), name iff name was given, idList iff list_id was given.
C3_PutOnlySuppliedFields ==
    \A n \in 1..Len(calls) :
        calls[n].op = "update_card" =>
            LET t == calls[n].outcome.trace
                a == calls[n].args
            IN  \A i \in 1..Len(t) :
                    IsCardPut(t[i]) =>
                        LET q == t[i].params
                        IN  /\ DOMAIN q \subseteq
                                {"key", "token", "name", "idList", "closed"}
                            /\ ("closed" \in DOMAIN q) <=> (a.archive # NONE)
                            /\ a.archive = "True" => q["closed"] = "true"
                            /\ a.archive = "False" => q["closed"] = "false"
                            /\ ("name" \in DOMAIN q) <=> (a.name # NONE)
                            /\ a.name # NONE => q["name"] = a.name
                            /\ ("idList" \in DOMAIN q) <=> (a.list_id # NONE)
                            /\ a.list_id # NONE => q["idList"] = a.list_id

\* update_card(archive=False) with nothing else: the PUT says closed=false.
C3_Witness ==
    /\ command.name = "update_card"
    /\ command.args.archive = "False"
    /\ command.args.name = NONE
    /\ command.args.list_id = NONE
    /\ \E i \in 1..Len(http) :
        IsCardPut(http[i]) /\ http[i].params["closed"] = "false"

\* The value a credential resolves to: the option, else the variable.
Resolved(option, env) == IF option \notin {NONE, ""} THEN option ELSE env

\* C4: in every subcommand each credential is the option's value, else the
\* environment variable's; if the api key or the token is then missing the
\* command prints the configuration error and exits 1 without any HTTP
\* request, and otherwise every request carries the resolved key and token.
C4_MissingCredentialsNoRequest ==
    command.name \in Subcommands =>
        LET k == Resolved(command.creds.api_key, command.creds.env_key)
            t == Resolved(command.creds.token, command.creds.env_token)
        IN  IF k \in {NONE, ""} \/ t \in {NONE, ""}
            THEN /\ http = <<>>
                 /\ calls = <<>>
                 /\ exit_code = 1
                 /\ stdout = <<ConfigError>>
            ELSE /\ RequestsOf(http) # {}
                 /\ \A i \in RequestsOf(http) :
                        http[i].params["key"] = k /\ http[i].params["token"] = t

\* The key is given and the token is given nowhere.
C4_Witness ==
    /\ command.name \in Subcommands
    /\ command.creds.api_key = "K"
    /\ command.creds.token = NONE
    /\ command.creds.env_token = NONE
    /\ exit_code = 1
    /\ http = <<>>

ListCommands == {"boards", "lists", "labels", "view_cards", "search"}

\* The columns of each list command's table, as keys of its records.
Columns(name) ==
    CASE name \in {"boards", "lists"} -> <<"name", "id">>
      [] name = "labels" -> <<"name", "id", "color">>
      [] name \in {"view_cards", "search"} -> <<"id", "name", "shortUrl">>

\* The message each command prints for an empty result.
EmptyMessage(name) ==
    CASE name = "view_cards" -> <<"The list does not contain any cards yet">>
      [] name = "search" ->
            <<"No cards found for the query string: ", command.args.query>>
      [] OTHER -> <<>>

\* The output is one table with one row per record, in the records' order.
PrintsTableOf(records) ==
    /\ Len(stdout) = 1
    /\ stdout[1].kind = "table"
    /\ Len(stdout[1].rows) = Len(records)
    /\ \A i \in 1..Len(records) :
        LET cols == Columns(command.name)
        IN  stdout[1].rows[i] = [c \in 1..Len(cols) |-> records[i][cols[c]]]

\* The output is one message and no table.
PrintsMessageOnly ==
    /\ Len(stdout) = 1
    /\ stdout[1].kind = "echo"
    /\ stdout[1].rows = <<>>

\* C5 as stated: every successful list command renders a non-empty result
\* as a table with one row per record in order, and prints a message and no
\* table for an empty result.
C5_Original_EmptyResultPrintsMessage ==
    (command.name \in ListCommands /\ exit_code = 0) =>
        LET records == calls[1].outcome.ret
        IN  IF Len(records) = 0 THEN PrintsMessageOnly
            ELSE PrintsTableOf(records)

\* C5 amended: every successful list command renders a non-empty result as
\* a table with one row per record in order; for an empty result view-cards
\* and search print their explanatory message and no table, and boards,
\* lists and labels print a table with no rows and no message.
C5_EmptyResultByCommand ==
    (command.name \in ListCommands /\ exit_code = 0) =>
        LET records == calls[1].outcome.ret
        IN  IF Len(records) > 0 THEN PrintsTableOf(records)
            ELSE IF command.name \in {"view_cards", "search"}
            THEN /\ PrintsMessageOnly
                 /\ stdout[1].text = EmptyMessage(command.name)
                 /\ Len(calls) = 1
            ELSE PrintsTableOf(<<>>)

\* view-cards on a list without cards.
C5_Witness ==
    /\ command.name = "view_cards"
    /\ exit_code = 0
    /\ calls[1].outcome.ret = <<>>
    /\ stdout[1].kind = "echo"

\* Between a request and its response no other request is issued.
Sequential(trace) ==
    /\ Len(trace) % 2 = 0
    /\ \A i \in 1..Len(trace) :
        IF i % 2 = 1 THEN IsRequest(trace[i]) ELSE IsResponse(trace[i])

NumRequests(trace) == Cardinality(RequestsOf(trace))

WithComment(c) ==
    c.op \in {"create_card", "update_card"} /\ Truthy(c.args.comment)

\* C6 as stated: every client operation issues exactly one HTTP call, except
\* create_card and update_card with a comment, which issue exactly two, one
\* after the other.
C6_Original_ExactlyTwoWithComment ==
    \A n \in 1..Len(calls) :
        LET t == calls[n].outcome.trace
        IN  /\ Sequential(t)
            /\ NumRequests(t) = IF WithComment(calls[n]) THEN 2 ELSE 1

\* C6 amended: every client operation issues exactly one HTTP call, except
\* create_card and update_card with a non-empty comment, which issue two,
\* one after the other, when the first call succeeds (and, for create_card,
\* the created card has a non-empty id) and only the first one otherwise.
C6_OneCallOrTwoWithComment ==
    \A n \in 1..Len(calls) :
        LET t == calls[n].outcome.trace
            firstOk == t[2].status < 400
            hasId == "id" \in DOMAIN t[2].body /\ Truthy(t[2].body["id"])
            second == /\ WithComment(calls[n])
                      /\ firstOk
                      /\ calls[n].op = "create_card" => hasId
        IN  /\ Sequential(t)
            /\ NumRequests(t) = IF second THEN 2 ELSE 1

\* update_card with a comment whose POST failed: one call, no PUT.
C6_Witness ==
    /\ command.name = "update_card"
    /\ command.args.comment = "hi"
    /\ Len(http) = 2
    /\ IsCommentPost(http[1])
    /\ http[2].status = 404

\* The fields listed for the entity each client operation returns.
EntityFields(op) ==
    CASE op \in {"get_boards", "get_lists_in_board"} -> {"id", "name"}
      [] op = "get_labels_in_board" -> {"id", "name", "color"}
      [] op \in {"get_cards_in_list", "search_cards", "create_card",
                 "update_card"} -> {"id", "name", "shortUrl"}

ListOperations ==
    {"get_boards", "get_lists_in_board", "get_labels_in_board",
     "get_cards_in_list", "search_cards"}

CardOperations == {"create_card", "update_card"}

\* Every record a list operation returned has its entity's fields.
ListRecordsComplete(c) ==
    (c.op \in ListOperations /\ ~c.outcome.raised) =>
        \A i \in 1..Len(c.outcome.ret) :
            EntityFields(c.op) \subseteq DOMAIN c.outcome.ret[i]

\* C7 as stated: every record any client operation returns has all the
\* fields of its entity, the card returned by create_card included.
C7_Original_EveryRecordComplete ==
    \A n \in 1..Len(calls) :
        /\ ListRecordsComplete(calls[n])
        /\ (calls[n].op \in CardOperations /\ ~calls[n].outcome.raised) =>
                EntityFields(calls[n].op) \subseteq DOMAIN calls[n].outcome.ret

\* The body of the response to the card POST or PUT of a call that returned.
CardResponseBody(c) ==
    LET t == c.outcome.trace
        i == CHOOSE i \in RequestsOf(t) : IsCardPost(t[i]) \/ IsCardPut(t[i])
    IN  t[i + 1].body

\* C7 amended: every record returned by a list operation (get_boards,
\* get_lists_in_board, get_labels_in_board, get_cards_in_list, search_cards)
\* has all the fields of its entity, a response record that lacks one making
\* the operation raise KeyError instead; create_card and update_card return
\* the remote's card as it came, with whatever fields it has, and add-card
\* exits 1 with a KeyError message when that card has no shortUrl.
C7_ListRecordsCompleteCardAsReceived ==
    \A n \in 1..Len(calls) :
        LET c == calls[n]
        IN  /\ ListRecordsComplete(c)
            /\ (c.op \in ListOperations /\ c.outcome.raised
                    /\ c.outcome.trace[2].status < 400) =>
                    c.outcome.exc.type = "KeyError"
            /\ (c.op \in CardOperations /\ ~c.outcome.raised) =>
                /\ c.outcome.ret = CardResponseBody(c)
                /\ (command.name = "add_card"
                        /\ "shortUrl" \notin DOMAIN c.outcome.ret) =>
                    /\ exit_code = 1
                    /\ stdout = <<Echo(<<"Error creating card: ">>,
                                       KeyError("shortUrl"))>>

\* add-card whose created card came back without a shortUrl.
C7_Witness ==
    /\ command.name = "add_card"
    /\ Len(calls) = 1
    /\ ~calls[1].outcome.raised
    /\ "shortUrl" \notin DOMAIN calls[1].outcome.ret
    /\ "id" \in DOMAIN calls[1].outcome.ret
    /\ exit_code = 1

\* The value a label's name or color is projected to when it is there.
Defaulted(v, default) == IF v = NONE \/ v = "" THEN default ELSE v

LabelsAnswered ==
    /\ Len(calls) = 1
    /\ calls[1].op = "get_labels_in_board"
    /\ http[2].status = 200

\* C8 as stated: every label of the response that has an id is projected,
\* its name "Unnamed Label" if empty or missing, its color "No Color" if
\* empty or missing, other values and the id unchanged.
C8_Original_MissingGetsDefault ==
    (LabelsAnswered /\ \A i \in 1..Len(http[2].body) :
                            "id" \in DOMAIN http[2].body[i]) =>
        LET body == http[2].body
            o == calls[1].outcome
        IN  /\ ~o.raised
            /\ Len(o.ret) = Len(body)
            /\ \A i \in 1..Len(body) :
                /\ o.ret[i]["id"] = body[i]["id"]
                /\ o.ret[i]["name"] =
                    IF "name" \in DOMAIN body[i]
                    THEN Defaulted(body[i]["name"], "Unnamed Label")
                    ELSE "Unnamed Label"
                /\ o.ret[i]["color"] =
                    IF "color" \in DOMAIN body[i]
                    THEN Defaulted(body[i]["color"], "No Color")
                    ELSE "No Color"

\* C8 amended: when every label of the response has the keys name, id and
\* color, each is projected with name "Unnamed Label" if its name is empty
\* or null, color "No Color" if its color is empty or null, non-empty values
\* and the id unchanged; when a label lacks one of the three keys the
\* operation raises KeyError and returns no record.
C8_EmptyOrNullGetsDefault ==
    LabelsAnswered =>
        LET body == http[2].body
            o == calls[1].outcome
        IN  IF \A i \in 1..Len(body) : {"name", "id", "color"} \subseteq DOMAIN body[i]
            THEN /\ ~o.raised
                 /\ Len(o.ret) = Len(body)
                 /\ \A i \in 1..Len(body) :
                    /\ DOMAIN o.ret[i] = {"name", "id", "color"}
                    /\ o.ret[i]["id"] = body[i]["id"]
                    /\ o.ret[i]["name"] = Defaulted(body[i]["name"], "Unnamed Label")
                    /\ o.ret[i]["color"] = Defaulted(body[i]["color"], "No Color")
            ELSE /\ o.raised
                 /\ o.exc.type = "KeyError"
                 /\ o.exc.arg \in {"name", "id", "color"}

\* A label with an empty name and a null color, shown with both defaults.
C8_Witness ==
    /\ command.name = "labels"
    /\ exit_code = 0
    /\ Len(http[2].body) > 0
    /\ http[2].body[1]["name"] = ""
    /\ http[2].body[1]["color"] = NONE
    /\ stdout[1].rows[1] = <<"Unnamed Label", "X", "No Color">>

\* ids[1], ",", ids[2], ... ",", ids[n] put together from the left.
RECURSIVE CommaSeparated(_, _)
CommaSeparated(ids, n) ==
    IF n = 1 THEN ids[1] ELSE CommaSeparated(ids, n - 1) \o "," \o ids[n]

\* C9: the POST of create_card carries key, token, idList and name and, only
\* for a non-empty list of label ids, one idLabels parameter: the ids in the
\* given order with a comma between them (["X","Y"] gives "X,Y"); with no
\* labels (None or []) there is no idLabels parameter.
C9_LabelsJoinedOrOmitted ==
    \A n \in 1..Len(calls) :
        calls[n].op = "create_card" =>
            LET q == calls[n].outcome.trace[1].params
                a == calls[n].args
                ids == a.labels.ids
            IN  /\ IsCardPost(calls[n].outcome.trace[1])
                /\ q["idList"] = a.list_id
                /\ q["name"] = a.name
                /\ IF a.labels.given /\ Len(ids) > 0
                   THEN /\ DOMAIN q = {"key", "token", "idList", "name", "idLabels"}
                        /\ q["idLabels"] = CommaSeparated(ids, Len(ids))
                        /\ ids = <<"X", "Y">> => q["idLabels"] = "X,Y"
                        /\ ids = <<"Y", "X">> => q["idLabels"] = "Y,X"
                   ELSE DOMAIN q = {"key", "token", "idList", "name"}

\* add-card --label X --label Y.
C9_Witness ==
    /\ command.name = "add_card"
    /\ command.args.labels.ids = <<"X", "Y">>
    /\ exit_code = 0
    /\ http[1].params["idLabels"] = "X,Y"

\* C10: update_card with a non-empty comment issues the comment POST first;
\* if it fails the operation raises and no PUT is issued; if it succeeds the
\* PUT follows, and if the PUT fails the operation raises with nothing
\* issued after it (no rollback of the comment, no retry).
C10_CommentBeforePut ==
    \A n \in 1..Len(calls) :
        (calls[n].op = "update_card" /\ Truthy(calls[n].args.comment)) =>
            LET t == calls[n].outcome.trace
                o == calls[n].outcome
            IN  /\ IsCommentPost(t[1])
                /\ t[1].url[2] = calls[n].args.card_id
                /\ t[1].params["text"] = calls[n].args.comment
                /\ IF t[2].status >= 400
                   THEN /\ Len(t) = 2
                        /\ o.raised
                        /\ o.exc = HTTPError(t[2].status)
                   ELSE /\ Len(t) = 4
                        /\ IsCardPut(t[3])
                        /\ t[4].status >= 400 =>
                            (o.raised /\ o.exc = HTTPError(t[4].status))
                        /\ t[4].status < 400 => ~o.raised

\* The comment was posted and the PUT then failed.
C10_Witness ==
    /\ command.name = "update_card"
    /\ command.args.comment = "hi"
    /\ Len(http) = 4
    /\ IsCommentPost(http[1])
    /\ http[2].status = 200
    /\ IsCardPut(http[3])
    /\ http[4].status = 500
    /\ calls[1].outcome.raised

Init ==
    /\ command = [name |-> "", creds |-> <<>>, args |-> <<>>]
    /\ http = <<>>
    /\ calls = <<>>
    /\ stdout = <<>>
    /\ exit_code = NoProcess

Next ==
    \/ boards
    \/ lists
    \/ labels
    \/ view_cards
    \/ search
    \/ add_card
    \/ call_update_card
    \/ call_add_comment

Spec == Init /\ [][Next]_vars

====
